---- MODULE Spec2Model ----
(***************************************************************************)
(* Capture-buffer lifecycle of the two camera backends:                    *)
(*   V4L2Camera (v4l2_camera.cpp)   - kernel video-capture device node     *)
(*   UVCCamera  (uvc_camera_impl.cpp) - USB bulk transfers through JNI     *)
(* The kernel side (file descriptors, the driver's buffer queue, the       *)
(* process' mappings) is modelled as far as the system calls of the code   *)
(* depend on it.  Every system call may fail; which one fails in a call    *)
(* is an input of the action (a fault plan).                               *)
(***************************************************************************)
EXTENDS Integers, Sequences, FiniteSets, TLC

\* ------------------------------------------------------------------ bounds
MaxGrant == 2       \* most buffers the driver grants to VIDIOC_REQBUFS
MaxAddr  == 3       \* number of distinct mapping addresses mmap can return
MaxFd    == 1       \* number of descriptors the process can hold open
MaxRefs  == 5       \* JNI global references that can be live at once
MaxBlocks == 2      \* heap blocks (frame buffers) that can be live at once
MaxDim   == 1       \* largest width and height a caller asks for
MaxIf    == 2       \* most interfaces of a USB device
MaxEp    == 1       \* most endpoints of an interface

\* --------------------------------------------------------- program constants
NoFd       == -1    \* fd_ of a camera that holds no handle
ReqCount   == 4     \* req.count asked of VIDIOC_REQBUFS
MinBuffers == 2     \* fewer granted buffers is "insufficient buffer memory"
NullPtr    == 0     \* nullptr
MapFailed  == -1    \* MAP_FAILED
FirstFd    == 3     \* lowest descriptor ::open can return (0..2 are stdio)
Indeterminate == -2 \* the length field of a v4l2_buffer never written
NoFrame    == -1    \* no buffer is with the caller

Addr    == 1..MaxAddr
FdPool  == FirstFd..(FirstFd + MaxFd - 1)
Slots   == 0..(MaxGrant - 1)
Formats == {"YUYV"}
WildPtr == MaxAddr + 1   \* an address at which nothing is mapped

\* USB side
UVC_INTERFACE_CLASS == 14
UVC_INTERFACE_SUBCLASS_CONTROL == 1
UVC_INTERFACE_SUBCLASS_STREAMING == 2
USB_ENDPOINT_XFER_BULK == 2
USB_ENDPOINT_XFER_ISOC == 1
USB_DIR_IN == 128
DefaultWidth == 640
DefaultHeight == 480
BytesPerPixel == 2
RefIds   == 1..MaxRefs
BlockIds == 1..MaxBlocks
Dims     == 1..MaxDim
NoRef == [kind |-> "free", i |-> 0, j |-> 0]
\* the interfaces and endpoints a device can have
Endpoints  == [type : {USB_ENDPOINT_XFER_BULK, USB_ENDPOINT_XFER_ISOC},
               dir : {USB_DIR_IN}]
EpLists    == UNION {[1..n -> Endpoints] : n \in 0..MaxEp}
Interfaces == [class : {UVC_INTERFACE_CLASS},
               subclass : {UVC_INTERFACE_SUBCLASS_CONTROL,
                           UVC_INTERFACE_SUBCLASS_STREAMING},
               eps : EpLists]
Descriptors == UNION {[1..n -> Interfaces] : n \in 0..MaxIf}
Caps    == {"VIDEO_CAPTURE", "STREAMING"}

\* where a call can be made to fail: a request name and the buffer index
NoFault == [at |-> "none", k |-> 0]

Hit(f, name, i) == f.at = name /\ f.k = i

VARIABLES
    backend,            \* "Kernel" or "UsbBulk": the kind of this CaptureDevice
    \* ---- V4L2Camera fields (v4l2_camera.h:40-45)
    fd_, current_buffer_, buffers_, buffer_start_, buffer_count_, streaming_,
    \* ---- the kernel: process resources and the driver's queue
    openFds,            \* descriptors open in the process
    mapped,             \* Addr -> length of the live mapping there, 0 if none
    devCaps,            \* capabilities the device reports
    devFormat,          \* format the driver currently has
    qOwner,             \* descriptor that owns the driver's buffer queue
    qState,             \* Slots -> "none" | "idle" | "queued" | "done" | "user"
    qStreaming,         \* the driver is streaming
    \* ---- UVCCamera fields (uvc_camera.h:37-47); streaming_ is shared
    env_, usbConnection_, usbDevice_, bulkEndpoint_, width_, height_,
    frameBuffer_, frameBufferSize_,
    \* ---- the managed runtime, the heap and the USB device
    refs,               \* RefIds -> what the live global reference refers to
    heap,               \* BlockIds -> size of the live block, 0 if free
    claimed,            \* indexes of the interfaces claimed on the connection
    desc,               \* the device's interfaces, each with its endpoints
    \* ---- what the last call did, as its caller and the device saw it
    lastOp, ret, io, outWritten,
    crashed,            \* the process died reading through a null pointer
    \* ---- the caller's side of the protocol
    inFlight,           \* buffer of the last successful getFrame not yet
                        \* followed by a releaseFrame, NoFrame if none
    released,           \* after releaseFrame: what inFlight was when called
    session,            \* a startStreaming has succeeded and neither
                        \* stopStreaming nor close was called since
    scen                \* steps done of open, setFormat, startStreaming,
                        \* getFrame, releaseFrame, stopStreaming, close on a
                        \* new camera with nothing failing; 0 when off it

camVars == <<fd_, current_buffer_, buffers_, buffer_start_, buffer_count_, streaming_>>
krnVars == <<openFds, mapped, devCaps, devFormat, qOwner, qState, qStreaming>>
uvcVars == <<env_, usbConnection_, usbDevice_, bulkEndpoint_, width_, height_,
             frameBuffer_, frameBufferSize_>>
usbVars == <<refs, heap, claimed, desc>>
obsVars == <<lastOp, ret, io, outWritten, crashed>>
usrVars == <<inFlight, released, session, scen>>
vars == <<backend, camVars, krnVars, uvcVars, usbVars, obsVars, usrVars>>

\* ------------------------------------------------------------ the state record
\* The calls are operators from a record of the variables to the record after
\* the call, so that a call that makes other calls (close -> stopStreaming ->
\* freeBuffers) is the composition of their operators.
State ==
    [fd_ |-> fd_, current_buffer_ |-> current_buffer_, buffers_ |-> buffers_,
     buffer_start_ |-> buffer_start_, buffer_count_ |-> buffer_count_,
     streaming_ |-> streaming_,
     openFds |-> openFds, mapped |-> mapped, devCaps |-> devCaps,
     devFormat |-> devFormat, qOwner |-> qOwner, qState |-> qState,
     qStreaming |-> qStreaming,
     env_ |-> env_, usbConnection_ |-> usbConnection_, usbDevice_ |-> usbDevice_,
     bulkEndpoint_ |-> bulkEndpoint_, width_ |-> width_, height_ |-> height_,
     frameBuffer_ |-> frameBuffer_, frameBufferSize_ |-> frameBufferSize_,
     refs |-> refs, heap |-> heap, claimed |-> claimed, desc |-> desc,
     io |-> <<>>, ret |-> TRUE, outWritten |-> FALSE, crashed |-> FALSE]

Log(s, req, arg, ok) ==
    [s EXCEPT !.io = Append(@, [req |-> req, arg |-> arg, ok |-> ok])]
LastOk(s) == s.io[Len(s.io)].ok

MinOf(S) == CHOOSE x \in S : \A y \in S : x <= y

\* ------------------------------------------------------- the kernel's answers
FdValid(s) == s.fd_ \in s.openFds
QueueMine(s) == FdValid(s) /\ s.qOwner = s.fd_
QueueAllocated(s) == \E i \in Slots : s.qState[i] # "none"
NoQueue == [i \in Slots |-> "none"]
\* length the driver reports for buffer i in VIDIOC_QUERYBUF
DrvLength(i) == i + 1

\* ::open(device_path, O_RDWR | O_NONBLOCK): the lowest free descriptor, or -1
SysOpen(s, f) ==
    LET free == FdPool \ s.openFds
        ok == free # {} /\ ~Hit(f, "open", 0)
        fd == IF ok THEN MinOf(free) ELSE NoFd
    IN Log([s EXCEPT !.fd_ = fd,
                     !.openFds = IF ok THEN @ \cup {fd} ELSE @], "open", fd, ok)

\* ::close(fd): releases the descriptor; the driver frees the queue of its owner
SysClose(s, fd) ==
    LET ok == fd \in s.openFds
        own == ok /\ s.qOwner = fd
    IN Log([s EXCEPT !.openFds = @ \ {fd},
                     !.qOwner = IF own THEN NoFd ELSE @,
                     !.qState = IF own THEN NoQueue ELSE @,
                     !.qStreaming = IF own THEN FALSE ELSE @], "close", fd, ok)

IoctlQuerycap(s, f) ==
    Log(s, "QUERYCAP", 0, FdValid(s) /\ ~Hit(f, "QUERYCAP", 0))

\* VIDIOC_S_FMT: refused (EBUSY) while buffers are allocated
IoctlSFmt(s, fmt, f) ==
    LET ok == FdValid(s) /\ ~QueueAllocated(s) /\ ~Hit(f, "S_FMT", 0)
    IN Log([s EXCEPT !.devFormat = IF ok THEN fmt ELSE @], "S_FMT", 0, ok)

\* VIDIOC_REQBUFS: refused (EBUSY) while streaming or owned by another
\* descriptor; otherwise the old buffers are orphaned (their mappings stay)
\* and `granted` new ones are allocated, all dequeued.
IoctlReqbufs(s, granted, f) ==
    LET ok == /\ FdValid(s)
              /\ ~s.qStreaming
              /\ s.qOwner \in {NoFd, s.fd_}
              /\ ~Hit(f, "REQBUFS", 0)
    IN Log([s EXCEPT !.qOwner = IF ok THEN s.fd_ ELSE @,
                     !.qState = IF ok THEN [i \in Slots |->
                                     IF i < granted THEN "idle" ELSE "none"]
                                ELSE @], "REQBUFS", granted, ok)

IoctlQuerybuf(s, i, f) ==
    Log(s, "QUERYBUF", i,
        QueueMine(s) /\ i \in Slots /\ s.qState[i] # "none" /\ ~Hit(f, "QUERYBUF", i))

\* mmap of buffer i: the lowest free address, or MAP_FAILED
Mmap(s, i, len, f) ==
    LET free == {a \in Addr : s.mapped[a] = 0}
        ok == FdValid(s) /\ free # {} /\ ~Hit(f, "mmap", i)
        a == IF ok THEN MinOf(free) ELSE MapFailed
    IN Log([s EXCEPT !.buffer_start_[i + 1] = a,
                     !.mapped = IF ok THEN [@ EXCEPT ![a] = len] ELSE @],
           "mmap", a, ok)

\* munmap(p, len): fine only for a live mapping of that length
Munmap(s, p, len) ==
    LET live == p \in Addr /\ s.mapped[p] # 0
    IN Log([s EXCEPT !.mapped = IF live THEN [@ EXCEPT ![p] = 0] ELSE @],
           "munmap", p, live /\ s.mapped[p] = len)

\* VIDIOC_QBUF: only a dequeued buffer of the caller's queue can be queued
IoctlQbuf(s, i, f) ==
    LET ok == /\ QueueMine(s)
              /\ i \in Slots
              /\ s.qState[i] \in {"idle", "user"}
              /\ ~Hit(f, "QBUF", i)
    IN Log([s EXCEPT !.qState = IF ok THEN [@ EXCEPT ![i] = "queued"] ELSE @],
           "QBUF", i, ok)

IoctlStreamon(s, f) ==
    LET ok == QueueMine(s) /\ QueueAllocated(s) /\ ~Hit(f, "STREAMON", 0)
    IN Log([s EXCEPT !.qStreaming = IF ok THEN TRUE ELSE @], "STREAMON", 0, ok)

\* VIDIOC_STREAMOFF: stops and hands every buffer back, dequeued
IoctlStreamoff(s, f) ==
    LET ok == /\ FdValid(s)
              /\ s.qOwner \in {NoFd, s.fd_}
              /\ ~Hit(f, "STREAMOFF", 0)
    IN Log([s EXCEPT !.qStreaming = IF ok THEN FALSE ELSE @,
                     !.qState = IF ok THEN [i \in Slots |->
                                     IF @[i] = "none" THEN "none" ELSE "idle"]
                                ELSE @], "STREAMOFF", 0, ok)

\* VIDIOC_DQBUF on a non-blocking descriptor: "ok", "EAGAIN" or "error"
DoneSet(s) == {i \in Slots : s.qState[i] = "done"}
DqbufResult(s, f) ==
    IF ~QueueMine(s) \/ ~s.qStreaming \/ Hit(f, "DQBUF", 0) THEN "error"
    ELSE IF DoneSet(s) = {} THEN "EAGAIN"
    ELSE "ok"
IoctlDqbuf(s, pick, f) ==
    LET ok == DqbufResult(s, f) = "ok"
    IN Log([s EXCEPT !.qState = IF ok THEN [@ EXCEPT ![pick] = "user"] ELSE @,
                     !.current_buffer_ = IF ok THEN [index |-> pick] ELSE @],
           "DQBUF", IF ok THEN pick ELSE -1, ok)

\* ------------------------------------------------------------- V4L2Camera
\* bool V4L2Camera::queryCapabilities()
QueryCapabilities(s, f) ==
    LET s1 == IoctlQuerycap(s, f)
    IN IF ~LastOk(s1) THEN [s1 EXCEPT !.ret = FALSE]
       ELSE IF "VIDEO_CAPTURE" \notin s1.devCaps THEN [s1 EXCEPT !.ret = FALSE]
       ELSE IF "STREAMING" \notin s1.devCaps THEN [s1 EXCEPT !.ret = FALSE]
       ELSE [s1 EXCEPT !.ret = TRUE]

\* bool V4L2Camera::open(const char* device_path)
Open(s, f) ==
    LET s1 == SysOpen(s, f)
    IN IF s1.fd_ < 0 THEN [s1 EXCEPT !.ret = FALSE]
       ELSE LET s2 == QueryCapabilities(s1, f)
            IN IF ~s2.ret
               THEN [SysClose(s2, s2.fd_) EXCEPT !.fd_ = NoFd, !.ret = FALSE]
               ELSE [s2 EXCEPT !.ret = TRUE]

\* bool V4L2Camera::openByFd(int fd)
OpenByFd(s, fd, f) ==
    IF fd < 0 THEN [s EXCEPT !.ret = FALSE]
    ELSE LET s2 == QueryCapabilities([s EXCEPT !.fd_ = fd], f)
         IN IF ~s2.ret THEN [s2 EXCEPT !.fd_ = NoFd, !.ret = FALSE]
            ELSE [s2 EXCEPT !.ret = TRUE]

\* the loop of freeBuffers: munmap of every slot that is neither null nor
\* MAP_FAILED, with the length held in buffers_ for it
RECURSIVE UnmapLoop(_, _)
UnmapLoop(s, i) ==
    IF i >= s.buffer_count_ THEN s
    ELSE LET p == s.buffer_start_[i + 1]
         IN UnmapLoop(IF p # NullPtr /\ p # MapFailed
                      THEN Munmap(s, p, s.buffers_[i + 1])
                      ELSE s, i + 1)

\* mutant of FreeBuffers: the mappings are never unmapped
FreeBuffers_NoUnmap(s) ==
    [s EXCEPT !.buffer_start_ = <<>>, !.buffers_ = <<>>, !.buffer_count_ = 0]

\* mutant of FreeBuffers: the arrays and the count are not reset
FreeBuffers_KeepPointers(s) ==
    IF s.buffer_start_ # <<>> THEN UnmapLoop(s, 0) ELSE s

\* void V4L2Camera::freeBuffers()    (<<>> stands for a null array pointer)
FreeBuffers(s) ==
    LET s1 == IF s.buffer_start_ # <<>>
              THEN [UnmapLoop(s, 0) EXCEPT !.buffer_start_ = <<>>]
              ELSE s
        s2 == IF s1.buffers_ # <<>> THEN [s1 EXCEPT !.buffers_ = <<>>] ELSE s1
    IN [s2 EXCEPT !.buffer_count_ = 0]

\* the loop of initBuffers from buffer i on: query, map, record
RECURSIVE MapLoop(_, _, _)
MapLoop(s, i, f) ==
    IF i >= s.buffer_count_ THEN [s EXCEPT !.ret = TRUE]
    ELSE LET s1 == IoctlQuerybuf(s, i, f)
         IN IF ~LastOk(s1) THEN [FreeBuffers(s1) EXCEPT !.ret = FALSE]
            ELSE LET s2 == Mmap(s1, i, DrvLength(i), f)
                 IN IF s2.buffer_start_[i + 1] = MapFailed
                    THEN [FreeBuffers(s2) EXCEPT !.ret = FALSE]
                    ELSE MapLoop([s2 EXCEPT !.buffers_[i + 1] = DrvLength(i)],
                                 i + 1, f)

\* bool V4L2Camera::initBuffers().  `granted` is req.count after the request;
\* gp is the indeterminate content of the new[] pointer array, and the
\* lengths of the new[] v4l2_buffer array are Indeterminate until written.
InitBuffers(s, granted, gp, f) ==
    LET s1 == IoctlReqbufs(s, granted, f)
    IN IF ~LastOk(s1) THEN [s1 EXCEPT !.ret = FALSE]
       ELSE IF granted < MinBuffers THEN [s1 EXCEPT !.ret = FALSE]
       ELSE MapLoop([s1 EXCEPT !.buffer_count_ = granted,
                               !.buffers_ = [i \in 1..granted |-> Indeterminate],
                               !.buffer_start_ = [i \in 1..granted |-> gp[i - 1]]],
                    0, f)

\* the queueing loop of startStreaming from buffer i on
RECURSIVE QueueLoop(_, _, _)
QueueLoop(s, i, f) ==
    IF i >= s.buffer_count_ THEN [s EXCEPT !.ret = TRUE]
    ELSE LET s1 == IoctlQbuf(s, i, f)
         IN IF ~LastOk(s1) THEN [s1 EXCEPT !.ret = FALSE]
            ELSE QueueLoop(s1, i + 1, f)

\* bool V4L2Camera::startStreaming()
StartStreaming(s, granted, gp, f) ==
    LET s1 == InitBuffers(s, granted, gp, f)
    IN IF ~s1.ret THEN s1
       ELSE LET s2 == QueueLoop(s1, 0, f)
            IN IF ~s2.ret THEN s2
               ELSE LET s3 == IoctlStreamon(s2, f)
                    IN IF ~LastOk(s3) THEN [s3 EXCEPT !.ret = FALSE]
                       ELSE [s3 EXCEPT !.streaming_ = TRUE, !.ret = TRUE]

\* mutant of StopStreaming: no check that the camera is streaming
StopStreaming_NoGuard(s, f) ==
    LET s1 == IoctlStreamoff(s, f)
    IN IF ~LastOk(s1) THEN [s1 EXCEPT !.ret = FALSE]
       ELSE [s1 EXCEPT !.streaming_ = FALSE, !.ret = TRUE]

\* bool V4L2Camera::stopStreaming()
StopStreaming(s, f) ==
    IF ~s.streaming_ THEN [s EXCEPT !.ret = TRUE]
    ELSE LET s1 == IoctlStreamoff(s, f)
         IN IF ~LastOk(s1) THEN [s1 EXCEPT !.ret = FALSE]
            ELSE [s1 EXCEPT !.streaming_ = FALSE, !.ret = TRUE]

\* void V4L2Camera::close()
Close(s, f) ==
    LET s1 == IF s.streaming_ THEN StopStreaming(s, f) ELSE s
        s2 == FreeBuffers(s1)
        s3 == IF s2.fd_ >= 0
              THEN [SysClose(s2, s2.fd_) EXCEPT !.fd_ = NoFd]
              ELSE s2
    IN [s3 EXCEPT !.ret = TRUE]

\* bool V4L2Camera::setFormat(int width, int height, int pixelFormat)
SetFormat(s, fmt, f) ==
    LET s1 == IoctlSFmt(s, fmt, f)
    IN [s1 EXCEPT !.ret = LastOk(s1)]

\* mutant of GetFrame: no check that the camera is streaming
GetFrame_NoGuard(s, pick, f) ==
    LET s1 == IoctlDqbuf([s EXCEPT !.current_buffer_ = [index |-> 0]], pick, f)
    IN IF ~LastOk(s1) THEN [s1 EXCEPT !.ret = FALSE]
       ELSE IF s1.buffer_start_ = <<>>
            THEN [s1 EXCEPT !.crashed = TRUE, !.ret = FALSE]
       ELSE [s1 EXCEPT !.outWritten = TRUE, !.ret = TRUE]

\* bool V4L2Camera::getFrame(unsigned char** buffer, int* buffer_size).
\* Reading buffer_start_[index] through a null buffer_start_ ends the process.
GetFrame(s, pick, f) ==
    IF ~s.streaming_ THEN [s EXCEPT !.ret = FALSE]
    ELSE LET s1 == IoctlDqbuf([s EXCEPT !.current_buffer_ = [index |-> 0]],
                              pick, f)
         IN IF ~LastOk(s1) THEN [s1 EXCEPT !.ret = FALSE]
            ELSE IF s1.buffer_start_ = <<>>
                 THEN [s1 EXCEPT !.crashed = TRUE, !.ret = FALSE]
            ELSE [s1 EXCEPT !.outWritten = TRUE, !.ret = TRUE]

\* void V4L2Camera::releaseFrame()
ReleaseFrame(s, f) ==
    [IoctlQbuf(s, s.current_buffer_.index, f) EXCEPT !.ret = TRUE]


\* --------------------------------------------------------------- UVCCamera
\* env->NewGlobalRef(obj): the lowest free reference
NewGlobalRef(s, what) ==
    MinOf({r \in RefIds : s.refs[r].kind = "free"})
AddRef(s, r, what) ==
    Log([s EXCEPT !.refs[r] = what], "NewGlobalRef", r, TRUE)
\* env->DeleteGlobalRef(ref)
DeleteGlobalRef(s, r) ==
    LET live == r \in RefIds /\ s.refs[r].kind # "free"
    IN Log([s EXCEPT !.refs = IF live THEN [@ EXCEPT ![r] = NoRef] ELSE @],
           "DeleteGlobalRef", r, live)

IsStreamingInterface(itf) ==
    /\ itf.class = UVC_INTERFACE_CLASS
    /\ itf.subclass = UVC_INTERFACE_SUBCLASS_STREAMING
IsBulkIn(ep) == ep.type = USB_ENDPOINT_XFER_BULK /\ ep.dir = USB_DIR_IN

\* the loop of findStreamingInterface from interface i on (0-based);
\* `refused` are the interfaces the connection refuses to hand over
RECURSIVE ClaimLoop(_, _, _)
ClaimLoop(s, i, refused) ==
    IF i >= Len(s.desc) THEN [s EXCEPT !.ret = FALSE]
    ELSE IF IsStreamingInterface(s.desc[i + 1])
         THEN LET got == i \notin refused
                  s1 == Log([s EXCEPT !.claimed = IF got THEN @ \cup {i} ELSE @],
                            "claimInterface", i, got)
              IN IF got THEN [s1 EXCEPT !.ret = TRUE]
                 ELSE ClaimLoop(s1, i + 1, refused)
         ELSE ClaimLoop(s, i + 1, refused)

\* bool UVCCamera::findStreamingInterface()
FindStreamingInterface(s, classFound, refused) ==
    IF ~classFound THEN [s EXCEPT !.ret = FALSE]
    ELSE ClaimLoop(s, 0, refused)

\* the loops of findBulkEndpoint from endpoint j of interface i on (0-based)
RECURSIVE EndpointLoop(_, _, _)
EndpointLoop(s, i, j) ==
    IF i >= Len(s.desc) THEN [s EXCEPT !.ret = FALSE]
    ELSE IF j >= Len(s.desc[i + 1].eps) THEN EndpointLoop(s, i + 1, 0)
    ELSE IF IsBulkIn(s.desc[i + 1].eps[j + 1])
         THEN LET what == [kind |-> "endpoint", i |-> i, j |-> j]
                  r == NewGlobalRef(s, what)
              IN [AddRef(s, r, what) EXCEPT !.bulkEndpoint_ = r, !.ret = TRUE]
         ELSE EndpointLoop(s, i, j + 1)

\* bool UVCCamera::findBulkEndpoint()
FindBulkEndpoint(s) == EndpointLoop(s, 0, 0)

\* bool UVCCamera::open(JNIEnv* env, jobject usbConnection, jobject usbDevice)
UvcOpen(s, classFound, refused) ==
    LET c  == [kind |-> "connection", i |-> 0, j |-> 0]
        d  == [kind |-> "device", i |-> 0, j |-> 0]
        rc == NewGlobalRef(s, c)
        s1 == [AddRef(s, rc, c) EXCEPT !.env_ = TRUE, !.usbConnection_ = rc]
        rd == NewGlobalRef(s1, d)
        s2 == [AddRef(s1, rd, d) EXCEPT !.usbDevice_ = rd]
        s3 == FindStreamingInterface(s2, classFound, refused)
    IN IF ~s3.ret THEN [s3 EXCEPT !.ret = FALSE]
       ELSE LET s4 == FindBulkEndpoint(s3)
            IN IF ~s4.ret THEN [s4 EXCEPT !.ret = FALSE]
               ELSE [s4 EXCEPT !.ret = TRUE]

\* void UVCCamera::stopStreaming()
UvcStopStreaming(s) == [s EXCEPT !.streaming_ = FALSE, !.ret = TRUE]

\* delete[] of a heap block
DeleteArray(s, b) ==
    LET live == b \in BlockIds /\ s.heap[b] # 0
    IN Log([s EXCEPT !.heap = IF live THEN [@ EXCEPT ![b] = 0] ELSE @],
           "delete[]", b, live)

\* void UVCCamera::close()
UvcClose(s) ==
    LET s1 == IF s.streaming_ THEN UvcStopStreaming(s) ELSE s
        s2 == IF s1.frameBuffer_ # NullPtr
              THEN [DeleteArray(s1, s1.frameBuffer_) EXCEPT
                        !.frameBuffer_ = NullPtr, !.frameBufferSize_ = 0]
              ELSE s1
        s3 == IF s2.env_ /\ s2.usbConnection_ # NullPtr
              THEN [DeleteGlobalRef(s2, s2.usbConnection_) EXCEPT
                        !.usbConnection_ = NullPtr]
              ELSE s2
        s4 == IF s3.env_ /\ s3.usbDevice_ # NullPtr
              THEN [DeleteGlobalRef(s3, s3.usbDevice_) EXCEPT !.usbDevice_ = NullPtr]
              ELSE s3
        s5 == IF s4.env_ /\ s4.bulkEndpoint_ # NullPtr
              THEN [DeleteGlobalRef(s4, s4.bulkEndpoint_) EXCEPT
                        !.bulkEndpoint_ = NullPtr]
              ELSE s4
    IN [s5 EXCEPT !.env_ = FALSE, !.ret = TRUE]

\* bool UVCCamera::negotiateFormat()
NegotiateFormat(s) == [s EXCEPT !.ret = TRUE]

\* bool UVCCamera::setFormat(int width, int height)
UvcSetFormat(s, width, height) ==
    LET size == width * height * BytesPerPixel
        b == MinOf({x \in BlockIds : s.heap[x] = 0})
        s1 == Log([s EXCEPT !.width_ = width, !.height_ = height,
                            !.frameBufferSize_ = size,
                            !.frameBuffer_ = b,
                            !.heap[b] = size], "new[]", b, TRUE)
    IN NegotiateFormat(s1)

\* bool UVCCamera::startStreaming()
UvcStartStreaming(s) ==
    IF s.bulkEndpoint_ = NullPtr THEN [s EXCEPT !.ret = FALSE]
    ELSE [s EXCEPT !.streaming_ = TRUE, !.ret = TRUE]

\* int UVCCamera::bulkTransfer(uint8_t* data, int length, int timeout):
\* `result` is what UsbDeviceConnection.bulkTransfer returns
BulkTransfer(s, result) ==
    IF s.usbConnection_ = NullPtr \/ s.bulkEndpoint_ = NullPtr
    THEN [st |-> s, n |-> -1]
    ELSE [st |-> Log(s, "bulkTransfer", result, result >= 0), n |-> result]

\* bool UVCCamera::getFrame(uint8_t** data, int* size)
UvcGetFrame(s, result) ==
    IF ~s.streaming_ \/ s.frameBuffer_ = NullPtr THEN [s EXCEPT !.ret = FALSE]
    ELSE LET bt == BulkTransfer(s, result)
         IN IF bt.n > 0 THEN [bt.st EXCEPT !.outWritten = TRUE, !.ret = TRUE]
            ELSE [bt.st EXCEPT !.ret = FALSE]

\* void UVCCamera::releaseFrame()
UvcReleaseFrame(s) == [s EXCEPT !.ret = TRUE]

\* ------------------------------------------------------------------ actions
Init ==
    /\ backend \in {"Kernel", "UsbBulk"}
    \* V4L2Camera::V4L2Camera()
    /\ fd_ = NoFd
    /\ current_buffer_ = [index |-> 0]
    /\ buffers_ = <<>>
    /\ buffer_start_ = <<>>
    /\ buffer_count_ = 0
    /\ streaming_ = FALSE
    \* the process and the device before the first call
    /\ openFds = {}
    /\ mapped = [a \in Addr |-> 0]
    /\ devCaps \in (IF backend = "Kernel" THEN SUBSET Caps ELSE {Caps})
    /\ devFormat = "default"
    /\ qOwner = NoFd
    /\ qState = NoQueue
    /\ qStreaming = FALSE
    \* UVCCamera::UVCCamera()
    /\ env_ = FALSE
    /\ usbConnection_ = NullPtr
    /\ usbDevice_ = NullPtr
    /\ bulkEndpoint_ = NullPtr
    /\ width_ = DefaultWidth
    /\ height_ = DefaultHeight
    /\ frameBuffer_ = NullPtr
    /\ frameBufferSize_ = 0
    \* the runtime and the USB device before the first call
    /\ refs = [r \in RefIds |-> NoRef]
    /\ heap = [b \in BlockIds |-> 0]
    /\ claimed = {}
    /\ desc \in (IF backend = "UsbBulk" THEN Descriptors ELSE {<<>>})
    /\ lastOp = "construct"
    /\ ret = TRUE
    /\ io = <<>>
    /\ outWritten = FALSE
    /\ crashed = FALSE
    /\ inFlight = NoFrame
    /\ released = NoFrame
    /\ session = FALSE
    /\ scen = 0

\* the calls of the scenario, in order
Scenario == <<"open", "setFormat", "startStreaming", "getFrame", "releaseFrame",
              "stopStreaming", "close">>
\* the scenario's progress after call op; `clean` says that no request of the
\* call was made to fail and the device had what the scenario supposes
ScenAfter(op, clean) ==
    IF ~clean \/ backend # "Kernel" THEN 0
    ELSE IF op = Scenario[1]
         THEN (IF lastOp = "construct" /\ devCaps = Caps THEN 1 ELSE 0)
    ELSE IF scen \in 1..(Len(Scenario) - 1) /\ op = Scenario[scen + 1]
         THEN scen + 1
    ELSE 0

\* the variables after a call that leaves the record t
Commit(op, t, clean) ==
    /\ ~crashed
    /\ crashed' = t.crashed
    /\ inFlight' = IF op = "getFrame" /\ t.ret
                   THEN (IF backend = "Kernel" THEN t.current_buffer_.index ELSE 0)
                   ELSE IF op = "releaseFrame" THEN NoFrame
                   ELSE inFlight
    /\ released' = IF op = "releaseFrame" THEN inFlight ELSE NoFrame
    /\ session' = IF op = "startStreaming" /\ t.ret THEN TRUE
                  ELSE IF op \in {"stopStreaming", "close"} THEN FALSE
                  ELSE session
    /\ scen' = ScenAfter(op, clean)
    /\ fd_' = t.fd_
    /\ current_buffer_' = t.current_buffer_
    /\ buffers_' = t.buffers_
    /\ buffer_start_' = t.buffer_start_
    /\ buffer_count_' = t.buffer_count_
    /\ streaming_' = t.streaming_
    /\ openFds' = t.openFds
    /\ mapped' = t.mapped
    /\ devCaps' = t.devCaps
    /\ devFormat' = t.devFormat
    /\ qOwner' = t.qOwner
    /\ qState' = t.qState
    /\ qStreaming' = t.qStreaming
    /\ env_' = t.env_
    /\ usbConnection_' = t.usbConnection_
    /\ usbDevice_' = t.usbDevice_
    /\ bulkEndpoint_' = t.bulkEndpoint_
    /\ width_' = t.width_
    /\ height_' = t.height_
    /\ frameBuffer_' = t.frameBuffer_
    /\ frameBufferSize_' = t.frameBufferSize_
    /\ refs' = t.refs
    /\ heap' = t.heap
    /\ claimed' = t.claimed
    /\ desc' = t.desc
    /\ lastOp' = op
    /\ ret' = t.ret
    /\ io' = t.io
    /\ outWritten' = t.outWritten
    /\ UNCHANGED backend

\* the first slot at which the loop of initBuffers fails, `granted` if none
FailSlot(s, granted, f) ==
    LET nfree == Cardinality({a \in Addr : s.mapped[a] = 0})
        byFault == IF f.at \in {"QUERYBUF", "mmap"} /\ f.k < granted
                   THEN f.k ELSE granted
    IN IF nfree < byFault THEN nfree ELSE byFault
\* Contents the pointer array of initBuffers can hold when it is allocated:
\* new[] leaves it indeterminate.  A slot is null, the address of a mapping
\* that is live, or an address where nothing is mapped (WildPtr stands for
\* all of those).  Slots that are written before anything reads them, and
\* arrays that are never allocated, are drawn as null only.
GarbagePtrs(s, granted, f) ==
    LET k == FailSlot(s, granted, f)
        live == {a \in Addr : s.mapped[a] # 0}
        read == IF LastOk(IoctlReqbufs(s, granted, f)) /\ granted >= MinBuffers
                THEN {i \in Slots : k <= i /\ i < granted}
                ELSE {}
    IN {g \in [Slots -> {NullPtr, WildPtr} \cup live] :
            \A i \in Slots \ read : g[i] = NullPtr}
\* the places where startStreaming can be made to fail when `granted`
\* buffers are granted
StartFaults(granted) ==
    {NoFault, [at |-> "REQBUFS", k |-> 0]} \cup
    (IF granted < MinBuffers THEN {}
     ELSE {[at |-> "STREAMON", k |-> 0]} \cup
          [at : {"QUERYBUF", "mmap", "QBUF"}, k : 0..(granted - 1)])

KOpen ==
    /\ backend = "Kernel"
    /\ \E f \in {NoFault, [at |-> "open", k |-> 0], [at |-> "QUERYCAP", k |-> 0]} :
          Commit("open", Open(State, f), f = NoFault)

\* The descriptor handed in is -1, one open in the process (this camera's own
\* included), a stale one, or one the caller has just opened (fresh).
KOpenByFd ==
    /\ backend = "Kernel"
    /\ \E fd \in {NoFd} \cup FdPool, fresh \in BOOLEAN,
          f \in {NoFault, [at |-> "QUERYCAP", k |-> 0]} :
          /\ fresh => fd \in FdPool \ openFds
          /\ Commit("openByFd",
                    OpenByFd(IF fresh THEN [State EXCEPT !.openFds = @ \cup {fd}]
                             ELSE State, fd, f), FALSE)

KClose ==
    /\ backend = "Kernel"
    /\ \E f \in {NoFault, [at |-> "STREAMOFF", k |-> 0]} :
          Commit("close", Close(State, f), f = NoFault)

KSetFormat ==
    /\ backend = "Kernel"
    /\ \E fmt \in Formats, f \in {NoFault, [at |-> "S_FMT", k |-> 0]} :
          Commit("setFormat", SetFormat(State, fmt, f), f = NoFault)

KStartStreaming ==
    /\ backend = "Kernel"
    /\ \E granted \in 1..(IF MaxGrant < ReqCount THEN MaxGrant ELSE ReqCount) :
       \E f \in StartFaults(granted) :
          \E gp \in GarbagePtrs(State, granted, f) :
             Commit("startStreaming", StartStreaming(State, granted, gp, f),
                    f = NoFault /\ granted >= MinBuffers)

KStopStreaming ==
    /\ backend = "Kernel"
    /\ \E f \in {NoFault, [at |-> "STREAMOFF", k |-> 0]} :
          Commit("stopStreaming", StopStreaming(State, f), f = NoFault)

KGetFrame ==
    /\ backend = "Kernel"
    /\ \E f \in {NoFault, [at |-> "DQBUF", k |-> 0]} :
          \E pick \in (IF DqbufResult(State, f) = "ok" THEN DoneSet(State) ELSE {0}) :
             Commit("getFrame", GetFrame(State, pick, f),
                    f = NoFault /\ DoneSet(State) # {})

KReleaseFrame ==
    /\ backend = "Kernel"
    /\ \E f \in {NoFault} \cup [at : {"QBUF"}, k : Slots] :
          Commit("releaseFrame", ReleaseFrame(State, f), f = NoFault)

\* the device fills a queued buffer while it streams
DriverFill ==
    /\ backend = "Kernel"
    /\ qStreaming
    /\ \E i \in Slots :
          /\ qState[i] = "queued"
          /\ qState' = [qState EXCEPT ![i] = "done"]
    /\ UNCHANGED <<backend, camVars, openFds, mapped, devCaps, devFormat, qOwner,
                   qStreaming, uvcVars, usbVars, obsVars, usrVars>>

\* ---- the calls on a UVCCamera
FreeRefs == Cardinality({r \in RefIds : refs[r].kind = "free"})

\* (guard: the three references open can take fit in the reference table)
UOpen ==
    /\ backend = "UsbBulk"
    /\ FreeRefs >= 3
    /\ \E classFound \in BOOLEAN,
          refused \in SUBSET {i \in 0..(Len(desc) - 1) :
                                 IsStreamingInterface(desc[i + 1])} :
          /\ ~classFound => refused = {}
          /\ Commit("open", UvcOpen(State, classFound, refused), FALSE)

UClose ==
    /\ backend = "UsbBulk"
    /\ Commit("close", UvcClose(State), FALSE)

\* (guard: the heap holds a free block for the frame buffer)
USetFormat ==
    /\ backend = "UsbBulk"
    /\ \E b \in BlockIds : heap[b] = 0
    /\ \E w \in Dims, h \in Dims :
          Commit("setFormat", UvcSetFormat(State, w, h), FALSE)

UStartStreaming ==
    /\ backend = "UsbBulk"
    /\ Commit("startStreaming", UvcStartStreaming(State), FALSE)

UStopStreaming ==
    /\ backend = "UsbBulk"
    /\ Commit("stopStreaming", UvcStopStreaming(State), FALSE)

\* the transfer fails (-1), times out (0) or reads up to the buffer's size
UGetFrame ==
    /\ backend = "UsbBulk"
    /\ \E result \in {-1, 0, 1} :
          Commit("getFrame", UvcGetFrame(State, result), FALSE)

UReleaseFrame ==
    /\ backend = "UsbBulk"
    /\ Commit("releaseFrame", UvcReleaseFrame(State), FALSE)

Next ==
    \/ KOpen
    \/ KOpenByFd
    \/ KClose
    \/ KSetFormat
    \/ KStartStreaming
    \/ KStopStreaming
    \/ KGetFrame
    \/ KReleaseFrame
    \/ DriverFill
    \/ UOpen
    \/ UClose
    \/ USetFormat
    \/ UStartStreaming
    \/ UStopStreaming
    \/ UGetFrame
    \/ UReleaseFrame

Spec == Init /\ [][Next]_vars

\* --------------------------------------------------------- the native bridge
\* mutant of NativeGetFrame: returns at once when no array could be allocated
NativeGetFrame_NoReleaseWithoutArray(s, pick, alloc, f) ==
    LET s1 == GetFrame(s, pick, f)
    IN IF ~s1.ret THEN [s1 EXCEPT !.ret = FALSE]
       ELSE IF ~alloc THEN [s1 EXCEPT !.ret = FALSE]
       ELSE [ReleaseFrame(s1, f) EXCEPT !.ret = TRUE]

\* jbyteArray nativeGetFrame(env, thiz, native_ptr) on an existing camera:
\* getFrame, then NewByteArray (`alloc` says whether it gives an array) and
\* the copy, then releaseFrame.  ret says that an array is returned.
NativeGetFrame(s, pick, alloc, f) ==
    LET s1 == GetFrame(s, pick, f)
    IN IF ~s1.ret THEN [s1 EXCEPT !.ret = FALSE]
       ELSE [ReleaseFrame(s1, f) EXCEPT !.ret = alloc]

\* The bridge exposes open, openByFd, close, setFormat, startStreaming and
\* stopStreaming of a V4L2Camera as they are, and getFrame / releaseFrame
\* only inside nativeGetFrame.
JNativeGetFrame ==
    /\ backend = "Kernel"
    /\ \E f \in {NoFault, [at |-> "DQBUF", k |-> 0]} \cup [at : {"QBUF"}, k : Slots],
          alloc \in BOOLEAN :
          \E pick \in (IF DqbufResult(State, f) = "ok" THEN DoneSet(State) ELSE {0}) :
             Commit("nativeGetFrame", NativeGetFrame(State, pick, alloc, f), FALSE)

BridgeInit == Init /\ backend = "Kernel"

BridgeNext ==
    \/ KOpen
    \/ KOpenByFd
    \/ KClose
    \/ KSetFormat
    \/ KStartStreaming
    \/ KStopStreaming
    \/ JNativeGetFrame
    \/ DriverFill

BridgeSpec == BridgeInit /\ [][BridgeNext]_vars

\* ------------------------------------------------------------------ claims
UserOwned == {i \in Slots : qState[i] = "user"}
LiveMappings == {a \in Addr : mapped[a] # 0}
Requests(name) == {n \in 1..Len(io) : io[n].req = name}

\* C1 (as claimed): on the kernel backend, once a format is set and the
\* camera streams, at most one buffer is with the caller (dequeued and not
\* queued again), whatever getFrame and releaseFrame calls were made.
C1_SingleInFlight ==
    (backend = "Kernel" /\ devFormat # "default" /\ streaming_ /\ qStreaming)
        => Cardinality(UserOwned) <= 1

\* C2: on a new camera with a capable device and no failing request, each
\* of open, setFormat, startStreaming, getFrame (frame ready), releaseFrame,
\* stopStreaming, close succeeds, and after close no mapping is live and the
\* descriptor is released.
C2_HappyPath ==
    /\ scen >= 1 => ret = TRUE
    /\ scen = 4 => outWritten /\ inFlight # NoFrame
    /\ scen = Len(Scenario) =>
          /\ LiveMappings = {}
          /\ openFds = {}
          /\ fd_ = NoFd
C2_Witness == scen = Len(Scenario) /\ Requests("munmap") # {}

\* C3: every munmap that V4L2Camera::close issues targets a live mapping
\* with its length, and every ::close it issues targets an open descriptor.
C3_CloseNoDoubleFree ==
    (backend = "Kernel" /\ lastOp = "close")
        => \A n \in Requests("munmap") \cup Requests("close") : io[n].ok
C3_Witness ==
    /\ backend = "Kernel" /\ lastOp = "close"
    /\ Requests("STREAMOFF") # {}
    /\ Cardinality(Requests("munmap")) >= MinBuffers
    /\ Requests("close") # {}

\* C4 (as claimed): a kernel camera that holds no descriptor has no live
\* mapping.
C4_NoMappingWithoutHandle ==
    (backend = "Kernel" /\ fd_ = NoFd) => LiveMappings = {}

\* C5 (as claimed): when the pool setup of startStreaming fails, the call
\* returns failure, the camera is not streaming, no buffer is mapped and the
\* pool is empty.
PoolSetupFailed ==
    \/ \E n \in Requests("REQBUFS") \cup Requests("QUERYBUF") \cup Requests("mmap") :
          ~io[n].ok
    \/ \E n \in Requests("REQBUFS") : io[n].arg < MinBuffers
C5_FailedSetupLeavesNothing ==
    (backend = "Kernel" /\ lastOp = "startStreaming" /\ PoolSetupFailed)
        => /\ ret = FALSE
           /\ ~streaming_
           /\ LiveMappings = {}
           /\ buffer_count_ = 0

\* C6: getFrame on a camera that is not streaming fails, issues no request
\* and writes neither output, on both backends.
C6_GetFrameNotStreaming ==
    (lastOp = "getFrame" /\ ~streaming_)
        => ret = FALSE /\ io = <<>> /\ ~outWritten
C6_Witness ==
    /\ lastOp = "getFrame" /\ ~streaming_
    /\ \/ backend = "Kernel" /\ fd_ \in openFds /\ buffer_count_ > 0
       \/ backend = "UsbBulk" /\ frameBuffer_ # NullPtr /\ bulkEndpoint_ # NullPtr

\* C7 (as claimed): releaseFrame with no buffer in flight sends no queue
\* request to the device (so the device's buffers stay as they are).
C7_ReleaseWithoutFrameIsNoop ==
    (backend = "Kernel" /\ lastOp = "releaseFrame" /\ released = NoFrame
        /\ fd_ \in openFds)
        => Requests("QBUF") = {}

\* C8 (as claimed): releaseFrame queues the buffer that the last successful
\* getFrame returned, also after getFrame calls that returned no frame.
C8_ReleaseRequeuesLastDequeued ==
    (backend = "Kernel" /\ lastOp = "releaseFrame" /\ released # NoFrame)
        => /\ Len(io) = 1
           /\ io[1].req = "QBUF"
           /\ io[1].arg = released

\* C9 (as claimed): setFormat on a streaming camera fails and issues no
\* request (no format request to the device, no new frame buffer).
C9_SetFormatWhileStreamingRejected ==
    (lastOp = "setFormat" /\ streaming_) => ret = FALSE /\ io = <<>>

\* C10 (as claimed): from a successful startStreaming to the next
\* stopStreaming or close, the pool (its size, its buffers, their mappings;
\* the frame buffer and its size on USB) does not change.
Pool ==
    IF backend = "Kernel"
    THEN [count |-> buffer_count_, start |-> buffer_start_,
          maps |-> [n \in 1..Len(buffer_start_) |->
                      IF buffer_start_[n] \in Addr
                      THEN mapped[buffer_start_[n]] ELSE 0],
          size |-> 0]
    ELSE [count |-> IF frameBuffer_ = NullPtr THEN 0 ELSE 1,
          start |-> <<frameBuffer_>>, maps |-> <<>>, size |-> frameBufferSize_]
C10_PoolFixedWhileStreaming ==
    [][(session /\ session') => Pool' = Pool]_vars

\* the state FormatSet: open, a setFormat has succeeded, not streaming
FormatSet ==
    IF backend = "Kernel"
    THEN fd_ \in openFds /\ devFormat # "default" /\ ~streaming_
    ELSE bulkEndpoint_ # NullPtr /\ frameBuffer_ # NullPtr /\ ~streaming_

\* C11 (as claimed): startStreaming succeeds only in state FormatSet; called
\* in any other state (no setFormat yet, closed, streaming) it fails and
\* changes neither the camera nor the device.
C11_StartOnlyFromFormatSet ==
    [][(KStartStreaming \/ UStartStreaming) =>
          (FormatSet \/ (~ret' /\ UNCHANGED <<camVars, krnVars, uvcVars, usbVars>>))]_vars

\* C12 (as claimed): when startStreaming fails at a queue request or at the
\* stream-on request, the camera is not streaming, no buffer is left queued
\* at the device and no pool is left behind.
StartFailedAfterPool ==
    /\ backend = "Kernel" /\ lastOp = "startStreaming" /\ ~ret
    /\ \E n \in Requests("QBUF") \cup Requests("STREAMON") : ~io[n].ok
C12_FailedStartRollsBack ==
    StartFailedAfterPool
        => /\ ~streaming_
           /\ \A i \in Slots : qState[i] \notin {"queued", "done"}
           /\ buffer_count_ = 0 /\ buffer_start_ = <<>>
           /\ LiveMappings = {}

\* the requests of a call that release something
Releases(log) ==
    {n \in 1..Len(log) :
        log[n].req \in {"munmap", "close", "DeleteGlobalRef", "delete[]"}}

\* C13 (as claimed): after close the camera is not streaming, holds no
\* handle and has an empty pool (USB: no frame buffer, no reference), whether
\* or not the stream-off request succeeded; a close that follows a close
\* releases nothing and leaves the state as it is.
C13_CloseIsFinalAndIdempotent ==
    [][(KClose \/ UClose) =>
          /\ ~streaming_'
          /\ backend = "Kernel" =>
                fd_' = NoFd /\ buffer_count_' = 0 /\ buffer_start_' = <<>>
          /\ backend = "UsbBulk" =>
                /\ frameBuffer_' = NullPtr
                /\ usbConnection_' = NullPtr /\ usbDevice_' = NullPtr
                /\ bulkEndpoint_' = NullPtr
          /\ lastOp = "close" =>
                /\ Releases(io') = {}
                /\ UNCHANGED <<camVars, krnVars, uvcVars, usbVars>>]_vars

\* C14: stopStreaming on a camera that is not streaming reports success,
\* issues no request and leaves the camera and the device as they are, on
\* both backends.
C14_StopWhenNotStreaming ==
    [][((KStopStreaming \/ UStopStreaming) /\ ~streaming_) =>
          /\ ret' = TRUE
          /\ io' = <<>>
          /\ UNCHANGED <<camVars, krnVars, uvcVars, usbVars>>]_vars
C14_Witness ==
    /\ lastOp = "stopStreaming" /\ ~streaming_ /\ io = <<>>
    /\ \/ backend = "Kernel" /\ fd_ \in openFds /\ buffer_count_ >= MinBuffers
       \/ backend = "UsbBulk" /\ bulkEndpoint_ # NullPtr /\ frameBuffer_ # NullPtr

\* C15 (as claimed): over open, openByFd and close, a descriptor the camera
\* holds is never dropped while it is still open, and every ::close the
\* camera issues targets an open descriptor.
C15_HandleReleasedExactlyOnce ==
    [][(KOpen \/ KOpenByFd \/ KClose) =>
          /\ ~(fd_ \in openFds /\ fd_' # fd_ /\ fd_ \in openFds')
          /\ \A n \in 1..Len(io') : io'[n].req = "close" => io'[n].ok]_vars

\* the capability query of a call succeeded (it is issued only on a
\* descriptor that ::open returned or that is not negative)
QueryOk(log) == \E n \in 1..Len(log) : log[n].req = "QUERYCAP" /\ log[n].ok

\* C16 (as claimed): open and openByFd succeed exactly when the handle is
\* valid, the capability query succeeds and the device has both
\* capabilities; after every failure the camera holds no handle, and the
\* descriptor that a failed open had opened is closed again.
C16_OpenSucceedsIffCapable ==
    [][(KOpen \/ KOpenByFd) =>
          /\ ret' <=> (QueryOk(io') /\ devCaps = Caps)
          /\ ~ret' => fd_' = NoFd
          /\ (KOpen /\ ~ret') =>
                \A n \in 1..Len(io') :
                    (io'[n].req = "open" /\ io'[n].ok) => io'[n].arg \notin openFds']_vars

\* what the caller of getFrame has after the call: the return value and
\* whether the outputs were written
Observed(t) == <<t.ret, t.outWritten>>

\* C17 (as claimed): where the dequeue finds no completed buffer, the caller
\* of getFrame observes something else than where the dequeue fails; on USB
\* a transfer that timed out (0 bytes) is observed differently from one that
\* failed (-1).
C17_WouldBlockDistinctFromError ==
    /\ (backend = "Kernel" /\ streaming_ /\ DqbufResult(State, NoFault) = "EAGAIN")
          => Observed(GetFrame(State, 0, NoFault))
                # Observed(GetFrame(State, 0, [at |-> "DQBUF", k |-> 0]))
    /\ (backend = "UsbBulk" /\ streaming_ /\ frameBuffer_ # NullPtr
            /\ bulkEndpoint_ # NullPtr)
          => Observed(UvcGetFrame(State, 0)) # Observed(UvcGetFrame(State, -1))

\* C18 (as claimed): after a failed UVCCamera::open a startStreaming fails,
\* no reference that the call created is live and no interface that the
\* call claimed is still claimed.
C18_FailedUvcOpenRollsBack ==
    (backend = "UsbBulk" /\ lastOp = "open" /\ ~ret)
        => /\ ~UvcStartStreaming(State).ret
           /\ \A n \in Requests("NewGlobalRef") : refs[io[n].arg].kind = "free"
           /\ \A n \in Requests("claimInterface") :
                 io[n].ok => io[n].arg \notin claimed

\* the arguments of the requests `name` of the last call that satisfy the
\* test on their success, in the order issued
RECURSIVE ArgsOf(_, _, _)
ArgsOf(log, name, okOnly) ==
    IF log = <<>> THEN <<>>
    ELSE LET e == Head(log)
         IN (IF e.req = name /\ (okOnly => e.ok) THEN <<e.arg>> ELSE <<>>)
                \o ArgsOf(Tail(log), name, okOnly)
LoopFailed ==
    /\ backend = "Kernel" /\ lastOp = "startStreaming"
    /\ \E n \in Requests("QUERYBUF") \cup Requests("mmap") : ~io[n].ok

\* C19 (as claimed): when the query or the mapping of buffer k fails in
\* initBuffers, the rollback unmaps exactly the buffers 0..k-1 it had
\* mapped, each with its length, and nothing else; a further freeBuffers
\* issues nothing.
C19_RollbackUnmapsExactlyMapped ==
    LoopFailed
        => /\ ArgsOf(io, "munmap", FALSE) = ArgsOf(io, "mmap", TRUE)
           /\ \A n \in Requests("munmap") : io[n].ok
           /\ FreeBuffers(State).io = <<>>

\* the teardown step a request of close belongs to: 1 stop streaming,
\* 2 free the pool, 3 release the handle / the references
TeardownStep(req) ==
    IF req = "STREAMOFF" THEN 1
    ELSE IF req \in {"munmap", "delete[]"} THEN 2
    ELSE 3

\* C20 (as claimed): close stops streaming, then frees the pool, then
\* releases the handle or the references, in this order; after close on the
\* USB backend no interface is claimed any more and the endpoint reference
\* is released.
C20_TeardownOrderAndRelease ==
    lastOp = "close"
        => /\ \A m, n \in 1..Len(io) :
                 m < n => TeardownStep(io[m].req) <= TeardownStep(io[n].req)
           /\ backend = "UsbBulk" => claimed = {} /\ bulkEndpoint_ = NullPtr

\* the bulk IN endpoints of interface c (0-based), by index
BulkInOf(c) ==
    {j \in 0..(Len(desc[c + 1].eps) - 1) : IsBulkIn(desc[c + 1].eps[j + 1])}

\* C21 (as claimed): when UVCCamera::open succeeds, the stored endpoint is
\* the first bulk IN endpoint of the interface the call claimed; when that
\* interface has no bulk IN endpoint, open fails.
C21_EndpointOfClaimedInterface ==
    (backend = "UsbBulk" /\ lastOp = "open")
        => \A n \in Requests("claimInterface") :
              io[n].ok =>
                 IF BulkInOf(io[n].arg) = {} THEN ~ret
                 ELSE ret /\ refs[bulkEndpoint_] =
                         [kind |-> "endpoint", i |-> io[n].arg,
                          j |-> MinOf(BulkInOf(io[n].arg))]

\* the frame buffer allocations that are live
LiveBlocks == {b \in BlockIds : heap[b] # 0}

\* C22 (as claimed): on the USB backend at most one frame buffer allocation
\* is live, it is the camera's frame buffer with the size width*height*2 of
\* the last setFormat, and after close none is live.
C22_SingleFrameBuffer ==
    backend = "UsbBulk"
        => /\ Cardinality(LiveBlocks) <= 1
           /\ \A b \in LiveBlocks :
                 /\ b = frameBuffer_
                 /\ heap[b] = width_ * height_ * BytesPerPixel
                 /\ frameBufferSize_ = heap[b]
           /\ lastOp = "close" => LiveBlocks = {}

QueueRefused(log) == \E n \in 1..Len(log) : log[n].req = "QBUF" /\ ~log[n].ok
====
